---- MODULE Spec2Model ----
(***************************************************************************)
(* Model of src/process_videos.py: the batch sweep of VideoProcessor.run   *)
(* over the pending rows of public.products, the per-product pipeline of   *)
(* process_product (download with retry, trim, merge, script, audio, mux,  *)
(* text overlay, upload) and the two store writes update_merge_status and  *)
(* update_crawl_status.                                                    *)
(*                                                                         *)
(* External programs (curl, ffprobe, ffmpeg, the two shell scripts, the    *)
(* database server, the object store) are the environment: every call to   *)
(* one of them is a nondeterministic choice over the outcomes the code     *)
(* distinguishes (exit status, exception, which files exist afterwards).  *)
(***************************************************************************)
EXTENDS Integers, Sequences, FiniteSets, TLC

(***************************************************************************)
(* Bounds of the model.                                                    *)
(***************************************************************************)
MaxJobs == 2          \* rows of public.products
MaxVideos == 2        \* longest 'videos' list of a video_data descriptor

TicksPerSecond == 2   \* a duration is a whole number of ticks
MaxSeconds == 45      \* longest clip ffprobe reports, in seconds
MaxTextLen == 75      \* longest overlay text, in characters
MaxRate == 16         \* largest chars_per_second, in characters per second
MaxNameLen == 52      \* longest product name, in characters
MaxClock == 4         \* latest reading of the clock, in ticks
MaxRuns == 2          \* runs of the script that upload the same product

(***************************************************************************)
(* Program constants.                                                      *)
(***************************************************************************)
max_retries == 3      \* download_videos: max_retries = 3
chars_per_second == 15  \* calculate_target_script_length: chars_per_second = 15.0

Jobs == 1..MaxJobs

NoUrl == 0            \* r2_video_url IS NULL / process_product returned None

\* What curl's -w '%{http_code}' prints; '000' also stands for empty stdout.
HttpCodes == {"200", "403", "404", "000"}
NoCode == "none"      \* Python None for last_http_code / error_code

\* What is at output_path after one curl run.
Bodies == {"missing", "empty", "invalid", "valid"}

Stages == <<"Downloading", "Trimming", "Merging", "ScriptGen", "VoiceGen",
            "Muxing", "Captioning", "Publishing">>

(***************************************************************************)
(* video_data descriptors.  json is the JSON type of the column value,     *)
(* videos the shape of its 'videos' entry, items the entries of the list:  *)
(* "url" a dict with a url, "nourl" a dict without one (video.get('url')   *)
(* is None), "notdict" an entry that is no dict.  A 'videos' value that is  *)
(* no list (a string, an object) iterates over entries that are no dicts.  *)
(* download_videos returns at the first entry it cannot download, so a     *)
(* malformed entry is sampled in first position only.                      *)
(***************************************************************************)
Desc(json, videos, items) == [json |-> json, videos |-> videos, items |-> items]

NullData == Desc("null", "absent", <<>>)

InvalidDescriptors ==
    { NullData,
      Desc("nondict", "absent", <<>>),
      Desc("dict", "absent", <<>>),
      Desc("dict", "nonlist", <<"notdict">>),
      Desc("dict", "list", <<>>) }

ValidDescriptors ==
    { Desc("dict", "list", [k \in 1..n |-> "url"]) : n \in 1..MaxVideos }
    \cup { Desc("dict", "list", <<bad>>) : bad \in {"nourl", "notdict"} }

Descriptors == InvalidDescriptors \cup ValidDescriptors

\* Mutant of HasVideos: the isinstance(videos, list) test is missing.
HasVideos_NoListTest(video_data) ==
    /\ video_data.json = "dict"
    /\ video_data.videos # "absent"
    /\ Len(video_data.items) # 0

\* run, lines 691-705 (and again process_product, lines 166-180)
HasVideos(video_data) ==
    /\ video_data.json # "null"                      \* video_data is None
    /\ video_data.json = "dict"                      \* isinstance(video_data, dict)
    /\ video_data.videos = "list"                    \* not videos / isinstance(videos, list)
    /\ Len(video_data.items) # 0                     \* len(videos) == 0

(***************************************************************************)
(* Scratch files.  videos_dir and output_dir are the two directories       *)
(* cleanup_directories wipes; scripts_dir and base_dir are not.            *)
(***************************************************************************)
VideoFile(k) == <<"videos/video.mp4", k>>
TrimmedFile(k) == <<"videos/trimmed.mp4", k>>
ConcatList == <<"videos/concat_list.txt", 0>>
MergedTemp == <<"output/merged_temp.mp4", 0>>
Voiceover == <<"output/voiceover.wav", 0>>
VoiceoverNormalized == <<"output/voiceover_normalized.aac", 0>>
MergedWithAudio == <<"output/merged_with_audio.mp4", 0>>
FinalMergedVideo == <<"output/final_merged_video.mp4", 0>>
GeneratedScript == <<"scripts/generated_script.txt", 0>>
TextOverlay == <<"scripts/text_overlay.txt", 0>>
VideoDataJson == <<"video-data.json", 0>>

videos_dir ==
    { VideoFile(k) : k \in 1..MaxVideos } \cup { TrimmedFile(k) : k \in 1..MaxVideos }
    \cup { ConcatList }

output_dir ==
    { MergedTemp, Voiceover, VoiceoverNormalized, MergedWithAudio, FinalMergedVideo }

scripts_dir == { GeneratedScript, TextOverlay }

Paths == videos_dir \cup output_dir \cup scripts_dir \cup { VideoDataJson }

\* No function has been applied.
NoApp == [fn |-> "none"]

VARIABLES
    pc,              \* position of the process
    db,              \* public.products: id -> row
    products,        \* run: the fetched batch, rows (id, video_data)
    idx,             \* run: position of the for loop in products (1-based)
    success_count, failed_count, skipped_count,
    files,           \* scratch files that exist
    i,               \* download_videos: index of the video being fetched (1-based)
    retry,           \* download_videos: retry of the inner loop
    last_http_code,  \* download_videos: last_http_code
    error_code,      \* process_product: error_code returned by download_videos
    r2_url,          \* run: r2_url returned by process_product
    fatal,           \* why main() took sys.exit(1)
    \* history variables
    log,             \* stages the current product ran: <<stage, succeeded>>
    tries,           \* curl attempts made for the current video
    seen,            \* status code printed by the latest curl attempt that failed
    written,         \* files written during the current product's run
    staleReads,      \* files the current product read that it had not written
    stale_write,     \* how update_crawl_status ended for the current product
    outcome,         \* id -> how the product's handling ended in the latest sweep
                     \*       that selected a product
    \* the process environment, and the function applications of the unit
    \* specifications below
    env,             \* the required variables __init__ read a value for
    app              \* the latest application of a function: name, input, result

vars == <<pc, db, products, idx, success_count, failed_count, skipped_count,
          files, i, retry, last_http_code, error_code, r2_url, fatal,
          log, tries, seen, written, staleReads, stale_write, outcome, env, app>>

counters == <<success_count, failed_count, skipped_count>>
download_locals == <<i, retry, last_http_code, tries, seen>>
history == <<log, written, staleReads, stale_write, outcome>>

(***************************************************************************)
(* The table.  A row that is not pending is never read by the program, so  *)
(* its video_data is sampled as NULL.                                      *)
(***************************************************************************)
Row(c, m, u, d) ==
    [crawl_status |-> c, merge_status |-> m, r2_video_url |-> u, video_data |-> d]

Rows(id) ==
    { Row(TRUE, FALSE, NoUrl, d) : d \in Descriptors }
    \cup { Row(FALSE, FALSE, NoUrl, NullData),
           Row(FALSE, TRUE, id, NullData),
           Row(TRUE, TRUE, id, NullData) }

\* Mutant of PendingIds: the filter on crawl_status is missing.
PendingIds_NoCrawlFilter(d) == { id \in Jobs : d[id].merge_status = FALSE }

\* get_pending_products: WHERE merge_status = FALSE AND crawl_status = TRUE
PendingIds(d) == { id \in Jobs : d[id].merge_status = FALSE /\ d[id].crawl_status = TRUE }

RECURSIVE OrderById(_)
\* get_pending_products: ORDER BY id
OrderById(S) ==
    IF S = {} THEN <<>>
    ELSE LET least == CHOOSE x \in S : \A y \in S : x <= y
         IN  <<least>> \o OrderById(S \ {least})

\* get_pending_products: SELECT id, video_data ... (cursor.fetchall())
get_pending_products(d) ==
    LET ids == OrderById(PendingIds(d))
    IN  [k \in 1..Len(ids) |-> [id |-> ids[k], video_data |-> d[ids[k]].video_data]]

\* Mutant of update_merge_status: the statement also clears crawl_status.
update_merge_status_ClearsCrawl(d, product_id, url) ==
    [d EXCEPT ![product_id].merge_status = TRUE, ![product_id].r2_video_url = url,
              ![product_id].crawl_status = FALSE]

\* Mutant of update_merge_status: the URL is stored, merge_status is not set.
update_merge_status_UrlOnly(d, product_id, url) ==
    [d EXCEPT ![product_id].r2_video_url = url]

\* update_merge_status: SET merge_status = TRUE, r2_video_url = %s WHERE id = %s
update_merge_status(d, product_id, url) ==
    [d EXCEPT ![product_id].merge_status = TRUE, ![product_id].r2_video_url = url]

\* Mutant of update_crawl_status: the WHERE clause matches no row.
update_crawl_status_NoRow(d, product_id, status) == d

\* update_crawl_status: SET crawl_status = %s WHERE id = %s
update_crawl_status(d, product_id, status) ==
    [d EXCEPT ![product_id].crawl_status = status]

\* cleanup_directories: rmtree + mkdir of videos_dir and output_dir
cleanup_directories(fs) == fs \ (videos_dir \cup output_dir)

\* upload_to_r2: the public URL is derived from the key, which holds product_id
PublicUrl(product_id) == product_id

RequiredEnv == {"DATABASE_URL", "R2_ACCESS_KEY_ID", "R2_SECRET_ACCESS_KEY", "R2_ENDPOINT"}

\* os.getenv at process start: every required variable set, or one missing.
Environments == { RequiredEnv } \cup { RequiredEnv \ {v} : v \in RequiredEnv }

Init ==
    /\ pc = "main"
    /\ db \in [Jobs -> UNION { Rows(id) : id \in Jobs }]
    /\ \A id \in Jobs : db[id] \in Rows(id)
    /\ products = <<>>
    /\ idx = 0
    /\ success_count = 0 /\ failed_count = 0 /\ skipped_count = 0
    /\ files = {}
    /\ i = 0 /\ retry = 0 /\ last_http_code = NoCode /\ tries = 0 /\ seen = NoCode
    /\ error_code = NoCode
    /\ r2_url = NoUrl
    /\ fatal = "none"
    /\ log = <<>>
    /\ written = {}
    /\ staleReads = {}
    /\ stale_write = "none"
    /\ outcome = [id \in Jobs |-> "None"]
    /\ env = {}
    /\ app = NoApp

\* The product and descriptor of the current loop iteration.
product_id == products[idx].id
video_data == products[idx].video_data
videos == video_data.items

(***************************************************************************)
(* main / VideoProcessor.__init__ / run up to the fetch                    *)
(***************************************************************************)
\* Mutant of Configured: only the database URL is checked.
Configured_DatabaseOnly(e) == "DATABASE_URL" \in e

\* VideoProcessor.__init__, lines 36 and 46: the two tests on the values read.
Configured(e) == RequiredEnv \subseteq e

\* VideoProcessor.__init__: raises ValueError when a required value is missing;
\* main catches it, logs "Fatal error" and exits 1.
Construct ==
    /\ pc = "main"
    /\ \E e \in Environments :
          /\ env' = e
          /\ IF Configured(e)
             THEN pc' = "run" /\ fatal' = "none"
             ELSE pc' = "exit1" /\ fatal' = "config"
    /\ UNCHANGED <<db, products, idx, counters, files, download_locals,
                   error_code, r2_url, history>>
    /\ UNCHANGED app

\* run, lines 669-684: setup_directories, get_pending_products, the empty batch
\* return, the counters.  A database error of the fetch is re-raised and ends
\* the process in main's handler.
Fetch ==
    /\ pc = "run"
    /\ \E db_ok \in BOOLEAN :
          IF ~db_ok
          THEN /\ pc' = "exit1" /\ fatal' = "database"
               /\ UNCHANGED <<products, idx, outcome>>
          ELSE /\ products' = get_pending_products(db)
               /\ fatal' = "none"
               /\ IF products' = <<>>
                  THEN pc' = "exit0" /\ idx' = 0
                  ELSE pc' = "loop" /\ idx' = 1
               /\ outcome' = IF products' = <<>> THEN outcome
                              ELSE [id \in Jobs |-> "None"]
    /\ success_count' = 0 /\ failed_count' = 0 /\ skipped_count' = 0
    /\ UNCHANGED <<db, files, download_locals, error_code, r2_url, log, written,
                   staleReads, stale_write>>
    /\ UNCHANGED <<env, app>>

(***************************************************************************)
(* run, the for loop over products                                         *)
(***************************************************************************)
\* Mutant of Skip: the skipped product is not counted.
Skip_NotCounted ==
    /\ pc = "loop"
    /\ idx <= Len(products)
    /\ ~HasVideos(video_data)
    /\ idx' = idx + 1
    /\ outcome' = [outcome EXCEPT ![product_id] = "Skipped"]
    /\ UNCHANGED <<pc, db, products, counters, files,
                   download_locals, error_code, r2_url, fatal, log, written,
                   staleReads, stale_write>>
    /\ UNCHANGED <<env, app>>

\* run, lines 686-705: a product without usable video_data is counted as
\* skipped and the loop continues.
Skip ==
    /\ pc = "loop"
    /\ idx <= Len(products)
    /\ ~HasVideos(video_data)
    /\ skipped_count' = skipped_count + 1
    /\ idx' = idx + 1
    /\ outcome' = [outcome EXCEPT ![product_id] = "Skipped"]
    /\ UNCHANGED <<pc, db, products, success_count, failed_count, files,
                   download_locals, error_code, r2_url, fatal, log, written,
                   staleReads, stale_write>>
    /\ UNCHANGED <<env, app>>

\* run, lines 707-708: cleanup_directories before the product is processed.
Cleanup ==
    /\ pc = "loop"
    /\ idx <= Len(products)
    /\ HasVideos(video_data)
    /\ files' = cleanup_directories(files)
    /\ pc' = "process"
    /\ UNCHANGED <<db, products, idx, counters, download_locals, error_code,
                   r2_url, fatal, history>>
    /\ UNCHANGED <<env, app>>

\* run, lines 726-733: the loop is over, the summary is logged, run returns.
Summary ==
    /\ pc = "loop"
    /\ idx > Len(products)
    /\ pc' = "exit0"
    /\ UNCHANGED <<db, products, idx, counters, files, download_locals,
                   error_code, r2_url, fatal, history>>
    /\ UNCHANGED <<env, app>>

(***************************************************************************)
(* process_product                                                         *)
(***************************************************************************)
\* What a step of the current product does to the scratch files: it reads
\* `reads` (those that exist), then writes `writes`.
Touch(reads, writes) ==
    /\ staleReads' = staleReads \cup ((reads \cap files) \ written)
    /\ files' = files \cup writes
    /\ written' = written \cup writes

\* Mutant of Stage: a failed stage does not return, the next stage runs.
Stage_ContinuesAfterFailure(name, ok, next) ==
    /\ log' = Append(log, <<name, ok>>)
    /\ pc' = next
    /\ r2_url' = NoUrl

\* Mutant of Stage: the failure of a stage is not caught and ends the process.
Stage_FailureEscapes(name, ok, next) ==
    /\ log' = Append(log, <<name, ok>>)
    /\ pc' = IF ok THEN next ELSE "exit1"
    /\ r2_url' = NoUrl

\* A stage of process_product that returned: on success the next stage is
\* entered, on failure process_product returns None.
Stage(name, ok, next) ==
    /\ log' = Append(log, <<name, ok>>)
    /\ pc' = IF ok THEN next ELSE "result"
    /\ r2_url' = NoUrl

\* process_product, lines 165-188: the descriptor is validated again (run has
\* done so already), then video-data.json is written.
ProcessProduct ==
    /\ pc = "process"
    /\ IF ~HasVideos(video_data)
       THEN /\ pc' = "result" /\ r2_url' = NoUrl
            /\ UNCHANGED <<files, written, staleReads>>
       ELSE /\ pc' = "download" /\ r2_url' = NoUrl
            /\ Touch({}, {VideoDataJson})
    /\ i' = 1 /\ retry' = 0 /\ last_http_code' = NoCode /\ tries' = 0 /\ seen' = NoCode
    /\ UNCHANGED <<db, products, idx, counters, error_code, fatal, log,
                   stale_write, outcome>>
    /\ UNCHANGED <<env, app>>

\* download_videos returns (success, code) to process_product, line 191.
DownloadReturn(success, code) ==
    /\ error_code' = code
    /\ log' = Append(log, <<"Downloading", success>>)
    /\ pc' = IF success THEN "trim" ELSE "download_failed"
    /\ r2_url' = NoUrl

\* download_videos, lines 246-247 and 317-319: video.get('url') on an entry
\* that is no dict raises; the outer handler returns (False, None).
DownloadMalformed ==
    /\ pc = "download"
    /\ videos[i] = "notdict"
    /\ DownloadReturn(FALSE, NoCode)
    /\ UNCHANGED <<db, products, idx, counters, files, download_locals, fatal,
                   written, staleReads, stale_write, outcome>>
    /\ UNCHANGED <<env, app>>

\* Mutant of CanRetry: the first failed attempt is final.
CanRetry_Never(r) == FALSE

\* download_videos, line 303: if retry < max_retries - 1
CanRetry(r) == r < max_retries - 1

\* download_videos, lines 253-313: one pass of the retry loop.  `launched` is
\* whether subprocess.run(['curl', ...]) returned (it raises for a None url),
\* `code` what curl printed and `body` what it left at output_path.
Attempt(launched, code, body) ==
    LET http == IF launched THEN code ELSE last_http_code
        good == launched /\ body = "valid"
        created == launched /\ body # "missing"
    IN  /\ seen' = IF good \/ ~launched THEN NoCode ELSE code
        /\ IF good
           THEN /\ Touch({}, {VideoFile(i)})
                /\ IF i = Len(videos)
                   THEN /\ DownloadReturn(TRUE, NoCode)
                        /\ i' = 0 /\ retry' = 0 /\ last_http_code' = NoCode
                        /\ tries' = 0
                   ELSE /\ i' = i + 1
                        /\ retry' = 0
                        /\ last_http_code' = NoCode
                        /\ tries' = 0
                        /\ UNCHANGED <<pc, error_code, r2_url, log>>
           ELSE IF CanRetry(retry)
           THEN /\ files' = files \ {VideoFile(i)}
                /\ retry' = retry + 1
                /\ last_http_code' = http
                /\ tries' = tries + 1
                /\ UNCHANGED <<pc, i, error_code, r2_url, log, written, staleReads>>
           ELSE /\ IF created
                   THEN Touch({}, {VideoFile(i)})
                   ELSE UNCHANGED <<files, written, staleReads>>
                /\ DownloadReturn(FALSE, http)
                /\ last_http_code' = http
                /\ tries' = tries + 1
                /\ UNCHANGED <<i, retry>>

\* download_videos: for i, video in enumerate(videos), with the retry loop
\* of lines 251-313 for the video.
DownloadAttempt ==
    /\ pc = "download"
    /\ videos[i] # "notdict"
    /\ IF videos[i] = "nourl"
       THEN Attempt(FALSE, NoCode, "missing")
       ELSE \E code \in HttpCodes, body \in Bodies : Attempt(TRUE, code, body)
    /\ UNCHANGED <<db, products, idx, counters, fatal, stale_write, outcome>>
    /\ UNCHANGED <<env, app>>

\* process_product, lines 192-200: a 404 of the download clears crawl_status;
\* an error of that write is logged and swallowed; process_product returns None.
\* Mutant of IsGone: a 403 is classified like a 404.
IsGone_Also403(code) == code \in {"404", "403"}

\* process_product, line 194: if error_code == '404'
IsGone(code) == code = "404"

\* Mutant of DownloadFailed: an error of update_crawl_status is not caught
\* and ends the process.
DownloadFailed_WriteErrorEscapes ==
    /\ pc = "download_failed"
    /\ IF IsGone(error_code)
       THEN \E committed \in BOOLEAN :
               /\ db' = IF committed
                        THEN update_crawl_status(db, product_id, FALSE)
                        ELSE db
               /\ stale_write' = IF committed THEN "committed" ELSE "failed"
               /\ pc' = IF committed THEN "result" ELSE "exit1"
               /\ fatal' = IF committed THEN fatal ELSE "database"
       ELSE db' = db /\ stale_write' = "none" /\ pc' = "result" /\ fatal' = fatal
    /\ r2_url' = NoUrl
    /\ UNCHANGED <<products, idx, counters, files, download_locals, error_code,
                   log, written, staleReads, outcome>>
    /\ UNCHANGED <<env, app>>

DownloadFailed ==
    /\ pc = "download_failed"
    /\ IF IsGone(error_code)
       THEN \E committed \in BOOLEAN :
               /\ db' = IF committed
                        THEN update_crawl_status(db, product_id, FALSE)
                        ELSE db
               /\ stale_write' = IF committed THEN "committed" ELSE "failed"
       ELSE db' = db /\ stale_write' = "none"
    /\ pc' = "result"
    /\ r2_url' = NoUrl
    /\ UNCHANGED <<products, idx, counters, files, download_locals, error_code,
                   fatal, log, written, staleReads, outcome>>
    /\ UNCHANGED <<env, app>>

\* What no later stage of process_product changes.
stage_frame ==
    <<db, products, idx, counters, download_locals, error_code, fatal, stale_write, outcome>>

\* process_videos (lines 321-380): video k is probed and trimmed (or copied)
\* to trimmed k, in order; the first failure returns False.  `done` is the
\* number of clips trimmed before that.
ProcessVideos ==
    /\ pc = "trim"
    /\ \E done \in 0..Len(videos) :
          /\ Touch({ VideoFile(k) : k \in 1..done } \cup
                   (IF done < Len(videos) THEN {VideoFile(done + 1)} ELSE {}),
                   { TrimmedFile(k) : k \in 1..done })
          /\ Stage("Trimming", done = Len(videos), "merge")
    /\ UNCHANGED stage_frame
    /\ UNCHANGED <<env, app>>

\* Mutant of MergeVideos: voice synthesis follows, script generation is
\* left out.
MergeVideos_ThenVoice ==
    /\ pc = "merge"
    /\ \E ok \in BOOLEAN :
          /\ Touch({ TrimmedFile(k) : k \in 1..Len(videos) },
                   {ConcatList} \cup (IF ok THEN {MergedTemp} ELSE {}))
          /\ Stage("Merging", ok, "audio")
    /\ UNCHANGED stage_frame
    /\ UNCHANGED <<env, app>>

\* merge_videos (lines 382-413): concat_list.txt is written, then ffmpeg
\* concatenates the trimmed clips into merged_temp.mp4.
MergeVideos ==
    /\ pc = "merge"
    /\ \E ok \in BOOLEAN :
          /\ Touch({ TrimmedFile(k) : k \in 1..Len(videos) },
                   {ConcatList} \cup (IF ok THEN {MergedTemp} ELSE {}))
          /\ Stage("Merging", ok, "script")
    /\ UNCHANGED stage_frame
    /\ UNCHANGED <<env, app>>

\* generate_script (lines 447-481): the merged clip is probed (duration 0
\* fails the stage), then scripts/generate-script.sh runs on video-data.json.
\* The script is an external program: when it exits 0 it has written
\* generated_script.txt, and text_overlay.txt or not (add_text_overlay
\* provides for its absence).
GenerateScript ==
    /\ pc = "script"
    /\ \E ok \in BOOLEAN, overlay \in BOOLEAN :
          /\ ok \/ ~overlay
          /\ Touch({MergedTemp, VideoDataJson},
                   (IF ok THEN {GeneratedScript} ELSE {}) \cup
                   (IF overlay THEN {TextOverlay} ELSE {}))
          /\ Stage("ScriptGen", ok, "audio")
    /\ UNCHANGED stage_frame
    /\ UNCHANGED <<env, app>>

\* generate_audio (lines 483-509): scripts/generate-audio.sh reads
\* generated_script.txt; the stage fails when the script fails or
\* voiceover.wav does not exist afterwards.
GenerateAudio ==
    /\ pc = "audio"
    /\ \E ok \in BOOLEAN :
          /\ Touch({GeneratedScript}, IF ok THEN {Voiceover} ELSE {})
          /\ Stage("VoiceGen", ok, "mux")
    /\ UNCHANGED stage_frame
    /\ UNCHANGED <<env, app>>

\* add_audio (lines 511-540): ffmpeg normalizes voiceover.wav, then a second
\* ffmpeg muxes it with merged_temp.mp4.  `done` counts the ffmpeg runs that
\* succeeded.
AddAudio ==
    /\ pc = "mux"
    /\ \E done \in 0..2 :
          /\ Touch({Voiceover} \cup (IF done >= 1 THEN {MergedTemp} ELSE {}),
                   (IF done >= 1 THEN {VoiceoverNormalized} ELSE {}) \cup
                   (IF done = 2 THEN {MergedWithAudio} ELSE {}))
          /\ Stage("Muxing", done = 2, "overlay")
    /\ UNCHANGED stage_frame
    /\ UNCHANGED <<env, app>>

\* add_text_overlay (lines 542-598): the overlay text is read from
\* text_overlay.txt when that file exists (else the product name is used),
\* then ffmpeg burns it into merged_with_audio.mp4.
AddTextOverlay ==
    /\ pc = "overlay"
    /\ \E ok \in BOOLEAN :
          /\ Touch({TextOverlay, MergedWithAudio},
                   IF ok THEN {FinalMergedVideo} ELSE {})
          /\ Stage("Captioning", ok, "upload")
    /\ UNCHANGED stage_frame
    /\ UNCHANGED <<env, app>>

\* Mutant of UploadToR2: a failed put_object is tried again.
UploadToR2_Retries ==
    /\ pc = "upload"
    /\ \E ok \in BOOLEAN :
          /\ Touch({FinalMergedVideo}, {})
          /\ log' = Append(log, <<"Publishing", ok>>)
          /\ r2_url' = IF ok THEN PublicUrl(product_id) ELSE NoUrl
          /\ pc' = IF ok THEN "result" ELSE "upload"
    /\ UNCHANGED stage_frame
    /\ UNCHANGED <<env, app>>

\* upload_to_r2 (lines 631-665) and process_product, lines 226-230: one
\* put_object; its URL is returned to run, or None when it raised.
UploadToR2 ==
    /\ pc = "upload"
    /\ \E ok \in BOOLEAN :
          /\ Touch({FinalMergedVideo}, {})
          /\ log' = Append(log, <<"Publishing", ok>>)
          /\ r2_url' = IF ok THEN PublicUrl(product_id) ELSE NoUrl
    /\ pc' = "result"
    /\ UNCHANGED stage_frame
    /\ UNCHANGED <<env, app>>

(***************************************************************************)
(* run, lines 713-724: the result of process_product is recorded           *)
(***************************************************************************)
\* How the handling of the product ended, for the history: with its row
\* marked merged, with an upload the table does not record, on a download
\* that gave up on a 404 (crawl_status cleared, or the write failed), or
\* failed otherwise.
Ended(committed) ==
    IF r2_url # NoUrl THEN (IF committed THEN "Succeeded" ELSE "Unrecorded")
    ELSE IF error_code = "404"
         THEN (IF stale_write = "committed" THEN "Stale" ELSE "GoneUnmarked")
    ELSE "Failed"

\* Mutant of Returned: the result of process_product is not looked at.
Returned_Always(url) == TRUE

\* run, line 713: if r2_url
Returned(url) == url # NoUrl

\* Mutant of IsSuccess: success_count is incremented before the write.
IsSuccess_BeforeWrite(url, committed) == Returned(url)

\* run, lines 713-721: success_count += 1 follows update_merge_status inside
\* the try; the except clause and the else branch count the product as failed.
IsSuccess(url, committed) == Returned(url) /\ committed

\* update_merge_status is called when process_product returned a URL; the
\* product counts as a success when that write committed, as failed when it
\* raised or when there was no URL.
RecordResult ==
    /\ pc = "result"
    /\ \E committed \in BOOLEAN :
          /\ ~Returned(r2_url) => committed
          /\ db' = IF Returned(r2_url) /\ committed
                   THEN update_merge_status(db, product_id, r2_url)
                   ELSE db
          /\ IF IsSuccess(r2_url, committed)
             THEN success_count' = success_count + 1 /\ UNCHANGED failed_count
             ELSE failed_count' = failed_count + 1 /\ UNCHANGED success_count
          /\ outcome' = [outcome EXCEPT ![product_id] = Ended(committed)]
    /\ idx' = idx + 1
    /\ pc' = "loop"
    /\ i' = 0 /\ retry' = 0 /\ last_http_code' = NoCode /\ tries' = 0 /\ seen' = NoCode
    /\ error_code' = NoCode
    /\ r2_url' = NoUrl
    /\ log' = <<>> /\ written' = {} /\ staleReads' = {} /\ stale_write' = "none"
    /\ UNCHANGED <<products, skipped_count, files, fatal>>
    /\ UNCHANGED <<env, app>>

(***************************************************************************)
(* The process has exited; the next sweep is a new process.                *)
(***************************************************************************)
Restart ==
    /\ pc \in {"exit0", "exit1"}
    /\ pc' = "main"
    /\ products' = <<>>
    /\ idx' = 0
    /\ success_count' = 0 /\ failed_count' = 0 /\ skipped_count' = 0
    /\ fatal' = "none"
    /\ UNCHANGED <<db, files, download_locals, error_code, r2_url, history>>
    /\ env' = {}
    /\ UNCHANGED app

Next ==
    \/ Construct
    \/ Fetch
    \/ Skip
    \/ Cleanup
    \/ Summary
    \/ ProcessProduct
    \/ DownloadMalformed
    \/ DownloadAttempt
    \/ DownloadFailed
    \/ ProcessVideos
    \/ MergeVideos
    \/ GenerateScript
    \/ GenerateAudio
    \/ AddAudio
    \/ AddTextOverlay
    \/ UploadToR2
    \/ RecordResult
    \/ Restart

Spec == Init /\ [][Next]_vars

(***************************************************************************)
(* Properties                                                              *)
(***************************************************************************)
\* Positions inside process_product.
PipelinePcs == {"process", "download", "download_failed", "trim", "merge", "script",
                "audio", "mux", "overlay", "upload", "result"}

\* The log of a product all of whose stages succeeded.
AllStagesOk == [k \in 1..Len(Stages) |-> <<Stages[k], TRUE>>]

\* The step in which run fetched its batch.
Fetched == pc = "run" /\ pc' \in {"loop", "exit0"}

FetchedIds == { products'[k].id : k \in 1..Len(products') }

IsPending(row) == row.crawl_status /\ ~row.merge_status /\ row.r2_video_url = NoUrl

\* C1: merge_status and r2_video_url of a row are written only by run's
\* update_merge_status for the current product, after process_product returned
\* the URL of its upload, which it does only after all eight stages, from the
\* download to the upload, succeeded in this run of the product; a product one
\* of whose stages failed is never marked merged and gets no URL.
C1_PublishedOnlyAfterFullPipeline ==
    [][ /\ (r2_url # NoUrl => log = AllStagesOk)
        /\ \A id \in Jobs :
              (\/ db'[id].merge_status # db[id].merge_status
               \/ db'[id].r2_video_url # db[id].r2_video_url)
              => /\ pc = "result"
                 /\ id = product_id
                 /\ r2_url # NoUrl
                 /\ log = AllStagesOk
                 /\ db'[id].merge_status
                 /\ db'[id].r2_video_url = r2_url ]_vars

\* A product was marked merged by this sweep, with the URL of its upload.
C1_Witness ==
    \E id \in Jobs :
        /\ outcome[id] = "Succeeded"
        /\ db[id].merge_status
        /\ db[id].r2_video_url = PublicUrl(id)

\* C2: the stages of a product run in the pipeline's order from the download
\* on, every stage before the latest one succeeded, and once a stage has
\* failed the product is on its way out of process_product with no URL: no
\* later stage runs and the pipeline is not entered in the middle.
C2_FailureEndsTheJob ==
    /\ Len(log) <= Len(Stages)
    /\ \A k \in 1..Len(log) :
          /\ log[k][1] = Stages[k]
          /\ k < Len(log) => log[k][2]
    /\ (log # <<>> /\ ~log[Len(log)][2])
          => pc \in {"download_failed", "result"} /\ r2_url = NoUrl
    /\ pc \in {"trim", "merge", "script", "audio", "mux", "overlay", "upload"}
          => log # <<>> /\ log[Len(log)][2]

\* A product failed in the middle of the pipeline (script generation).
C2_Witness ==
    /\ pc = "result"
    /\ Len(log) = 4
    /\ log[4] = <<"ScriptGen", FALSE>>

\* C3: a product that ended failed, other than by a download classified 404,
\* has its row as it was (crawl_status true, merge_status false, no URL); the
\* next fetch selects it again, and every run of a product starts with the
\* download.
C3_FailedJobIsRetried ==
    [][ /\ \A id \in Jobs :
              outcome[id] \in {"Failed", "Unrecorded"} => IsPending(db[id])
        /\ Fetched => \A id \in Jobs :
              outcome[id] \in {"Failed", "Unrecorded"} => id \in FetchedIds
        /\ (pc = "process" /\ pc' # "process") => pc' = "download" /\ log' = <<>>
        /\ (log # <<>> => log[1][1] = "Downloading") ]_vars

\* The next sweep is about to fetch, and a product failed in the one before.
C3_Witness ==
    /\ pc = "run"
    /\ \E id \in Jobs : outcome[id] = "Failed" /\ IsPending(db[id])

\* C4: crawl_status of a row changes only in process_product's handling of a
\* failed download of that product, when the download gave up after
\* max_retries attempts the last of which printed 404; the write sets it to
\* false and leaves merge_status and r2_video_url as they were.
C4_StaleOnlyOn404 ==
    [][ \A id \in Jobs :
           db'[id].crawl_status # db[id].crawl_status
           => /\ pc = "download_failed"
              /\ id = product_id
              /\ log = << <<"Downloading", FALSE>> >>
              /\ tries = max_retries
              /\ seen = "404"
              /\ error_code = "404"
              /\ ~db'[id].crawl_status
              /\ db'[id].merge_status = db[id].merge_status
              /\ db'[id].r2_video_url = db[id].r2_video_url ]_vars

\* The crawl_status of a product was cleared.
C4_Witness ==
    /\ pc = "result"
    /\ stale_write = "committed"
    /\ ~db[product_id].crawl_status
    /\ ~db[product_id].merge_status

\* C5 as stated: a product whose download gave up on a 404 has crawl_status
\* false afterwards.
C5_GoneIsAlwaysStale ==
    \A id \in Jobs :
        outcome[id] \in {"Stale", "GoneUnmarked"} => ~db[id].crawl_status

\* C5, amended: a product whose download gave up on a 404 is counted as failed;
\* when the update_crawl_status write committed its row has crawl_status false
\* and the next fetch does not select it; when that write raised, the row
\* keeps crawl_status true.
C5_GoneIsStaleWhenWritten ==
    [][ /\ (pc = "result" /\ error_code = "404" /\ pc' # "result")
           => /\ failed_count' = failed_count + 1
              /\ success_count' = success_count
              /\ skipped_count' = skipped_count
              /\ stale_write \in {"committed", "failed"}
              /\ outcome'[product_id] \in {"Stale", "GoneUnmarked"}
        /\ \A id \in Jobs :
              /\ outcome[id] = "Stale" => ~db[id].crawl_status
              /\ outcome[id] = "GoneUnmarked" => db[id].crawl_status
              /\ (Fetched /\ outcome[id] = "Stale") => id \notin FetchedIds ]_vars

\* The next sweep is about to fetch, and a product went stale in the one before.
C5_Witness ==
    /\ pc = "run"
    /\ \E id \in Jobs : outcome[id] = "Stale" /\ ~db[id].crawl_status

\* C6: a video gets at most max_retries attempts; the downloader moves to the
\* next video exactly when an attempt left a valid file, and all videos before
\* the current one are downloaded and none after it; when the attempts of a
\* video are used up the download fails, no later video has been attempted,
\* and the code returned is the one the last attempt printed.
C6_DownloadRetry ==
    [][ /\ tries <= max_retries
        /\ pc = "download"
           => /\ \A k \in 1..Len(videos) : VideoFile(k) \in files <=> k < i
              /\ tries = retry
              /\ tries < max_retries
        /\ (pc = "download" /\ pc' = "download")
           => /\ i' \in {i, i + 1}
              /\ i' = i + 1 <=> VideoFile(i) \in files'
              /\ i' = i => tries' = tries + 1
        /\ (pc = "download" /\ pc' = "trim")
           => /\ i = Len(videos)
              /\ \A k \in 1..Len(videos) : VideoFile(k) \in files'
        /\ (pc = "download_failed" /\ tries > 0)
           => /\ tries = max_retries
              /\ error_code = seen
              /\ \A k \in 1..Len(videos) : k > i => VideoFile(k) \notin files ]_vars

\* The second video used up its attempts after the first was downloaded.
C6_Witness ==
    /\ pc = "download_failed"
    /\ i = 2
    /\ tries = max_retries
    /\ seen = "403"
    /\ VideoFile(1) \in files

\* C7: a product reads no scratch file that it has not written itself in its
\* current run.
C7_NoStaleRead == staleReads = {}

\* C8: the batch a sweep fetches holds exactly the rows with crawl_status true
\* and merge_status false at the fetch, in ascending order of id, and the loop
\* handles them in that order, one position at a time.
C8_SelectsPendingInOrder ==
    [][ /\ Fetched
           => /\ FetchedIds = { id \in Jobs : db[id].crawl_status /\ ~db[id].merge_status }
              /\ \A k \in 1..Len(products') :
                    /\ products'[k].video_data = db[products'[k].id].video_data
                    /\ k > 1 => products'[k - 1].id < products'[k].id
              /\ idx' = (IF products' = <<>> THEN 0 ELSE 1)
        /\ pc \in PipelinePcs => idx \in 1..Len(products)
        /\ (idx' # idx /\ pc # "run" /\ pc' # "main") => idx' = idx + 1
        /\ (products' # products) => pc = "run" \/ pc' = "main" ]_vars

\* The second product of a batch of two is being processed.
C8_Witness ==
    /\ pc = "process"
    /\ idx = 2
    /\ products[1].id < products[2].id

\* C9: a fetched product whose video_data is null, no object, or has no
\* non-empty list of videos is counted as skipped and nothing else: the loop
\* moves on, no directory is wiped, no stage runs and the table is not
\* written; process_product only ever sees a descriptor with videos.
C9_InvalidDescriptorIsSkipped ==
    [][ /\ (pc = "loop" /\ idx <= Len(products) /\ video_data \in InvalidDescriptors)
           => /\ skipped_count' = skipped_count + 1
              /\ failed_count' = failed_count
              /\ success_count' = success_count
              /\ files' = files
              /\ db' = db
              /\ log' = log
              /\ pc' = "loop"
              /\ idx' = idx + 1
        /\ pc \in PipelinePcs => video_data \notin InvalidDescriptors ]_vars

\* A product was skipped while files of an earlier product are in the
\* directories.
C9_Witness ==
    /\ pc = "loop"
    /\ idx = 3
    /\ outcome[products[2].id] = "Skipped"
    /\ skipped_count = 1
    /\ files \cap videos_dir # {}

C11_UnrecordedUploadIsFailure ==
    [][ (pc = "result" /\ pc' # "result" /\ r2_url # NoUrl
            /\ ~db'[product_id].merge_status)
        => /\ db' = db
           /\ failed_count' = failed_count + 1
           /\ success_count' = success_count
           /\ pc' = "loop"
           /\ products' = products
           /\ idx' = idx + 1 ]_vars

\* The upload of the first product was not recorded; the sweep went on and
\* published the second one.
C11_Witness ==
    /\ pc = "exit0"
    /\ Len(products) = 2
    /\ outcome[products[1].id] = "Unrecorded"
    /\ ~db[products[1].id].merge_status
    /\ outcome[products[2].id] = "Succeeded"
    /\ failed_count = 1
    /\ success_count = 1

\* The latest sweep that selected products ended every one of them Succeeded.
FullySucceeded ==
    /\ \E id \in Jobs : outcome[id] = "Succeeded"
    /\ \A id \in Jobs : outcome[id] \in {"None", "Succeeded"}

\* C12: when every product the previous sweep selected ended Succeeded, the
\* fetch of the next sweep returns no product, run returns at once, and the
\* sweep writes nothing to the table (nor to the scratch files).
C12_SecondSweepIsEmpty ==
    [][ (pc = "run" /\ pc' # "run" /\ FullySucceeded)
        => /\ Fetched => (products' = <<>> /\ pc' = "exit0")
           /\ pc' \in {"exit0", "exit1"}
           /\ db' = db
           /\ files' = files ]_vars

\* Every product was published by one sweep, and a later sweep has fetched an
\* empty batch and returned.
C12_Witness ==
    /\ pc = "exit0"
    /\ products = <<>>
    /\ \A id \in Jobs : outcome[id] = "Succeeded" /\ db[id].merge_status

\* C13: products are handled one at a time and the stages of a product run
\* in the order of Stages.  A stage that runs is the next one of the current
\* product; the scratch wipe of a product starts with no stage of it run and
\* with every earlier product of the batch ended; the table is written only
\* for the current product, by its own download failure or result step; and
\* the loop moves on by one product, in the step that ends the current one.
C13_OneJobAtATime ==
    [][ /\ (log' # log /\ log' # <<>>)
           => /\ pc \in PipelinePcs
              /\ Len(log) < Len(Stages)
              /\ \E ok \in BOOLEAN : log' = Append(log, <<Stages[Len(log) + 1], ok>>)
              /\ products' = products /\ idx' = idx
        /\ (pc = "loop" /\ pc' = "process")
           => /\ log = <<>> /\ written = {} /\ stale_write = "none"
              /\ \A k \in 1..Len(products) :
                    (k < idx) <=> (outcome[products[k].id] # "None")
        /\ \A id \in Jobs :
              db'[id] # db[id]
              => pc \in {"download_failed", "result"} /\ id = product_id /\ idx' >= idx
        /\ (pc \in PipelinePcs \cup {"loop"} /\ idx' # idx)
           => /\ pc \in {"loop", "result"}
              /\ idx' = idx + 1
              /\ pc' = "loop"
              /\ outcome'[product_id] # "None"
              /\ log' = <<>> ]_vars

\* The second product of the batch is in its pipeline, past the first stage,
\* after the first one was published.
C13_Witness ==
    /\ pc = "merge"
    /\ idx = 2
    /\ outcome[products[1].id] = "Succeeded"
    /\ db[products[1].id].merge_status
    /\ Len(log) = 2

(***************************************************************************)
(* Unit specifications.  Each one applies one function of the program to   *)
(* inputs drawn from a bounded set; the process itself does not run.       *)
(***************************************************************************)
program == <<pc, db, products, idx, success_count, failed_count, skipped_count,
             files, i, retry, last_http_code, error_code, r2_url, fatal,
             log, tries, seen, written, staleReads, stale_write, outcome, env>>

\* No process is running and no row is pending.
Parked ==
    /\ pc = "unit"
    /\ db = [id \in Jobs |-> Row(FALSE, FALSE, NoUrl, NullData)]
    /\ products = <<>>
    /\ idx = 0
    /\ success_count = 0 /\ failed_count = 0 /\ skipped_count = 0
    /\ files = {}
    /\ i = 0 /\ retry = 0 /\ last_http_code = NoCode /\ tries = 0 /\ seen = NoCode
    /\ error_code = NoCode
    /\ r2_url = NoUrl
    /\ fatal = "none"
    /\ log = <<>>
    /\ written = {}
    /\ staleReads = {}
    /\ stale_write = "none"
    /\ outcome = [id \in Jobs |-> "None"]
    /\ env = {}

\* A number of seconds, in ticks.
Seconds(n) == n * TicksPerSecond

\* What ffprobe prints for a clip that has content: a positive duration.
Durations == 1..Seconds(MaxSeconds)

(***************************************************************************)
(* process_videos, lines 353-374: the trim of one downloaded clip          *)
(***************************************************************************)
\* line 353
new_duration(duration) == duration - Seconds(4)

\* Mutant of TrimCommand: the test is new_duration >= 0.
TrimCommand_AlsoAtZero(duration) ==
    IF new_duration(duration) >= 0
    THEN [tool |-> "ffmpeg", ss |-> Seconds(2), t |-> new_duration(duration)]
    ELSE [tool |-> "copy"]

\* lines 355-374: ffmpeg -ss 2 -t new_duration when new_duration > 0, else
\* shutil.copy of the input.
TrimCommand(duration) ==
    IF new_duration(duration) > 0
    THEN [tool |-> "ffmpeg", ss |-> Seconds(2), t |-> new_duration(duration)]
    ELSE [tool |-> "copy"]

Min(a, b) == IF a <= b THEN a ELSE b

\* The part of the input the command writes to trimmed_i.mp4: ffmpeg seeks
\* to ss and stops t later or at the end of the input; copy takes all of it.
ClipOf(duration, cmd) ==
    IF cmd.tool = "ffmpeg"
    THEN [from |-> Min(cmd.ss, duration), to |-> Min(cmd.ss + cmd.t, duration)]
    ELSE [from |-> 0, to |-> duration]

TrimInit ==
    /\ Parked
    /\ app \in { [fn |-> "ffprobe", duration |-> d] : d \in Durations }

\* One iteration of the loop of process_videos on a probed clip.
TrimClip ==
    /\ app.fn = "ffprobe"
    /\ app' = [fn |-> "trim", duration |-> app.duration,
               cmd |-> TrimCommand(app.duration),
               clip |-> ClipOf(app.duration, TrimCommand(app.duration))]
    /\ UNCHANGED program

TrimNext == TrimClip

TrimSpec == TrimInit /\ [][TrimNext]_vars

\* C14: a clip of duration D > 4 s is cut to the D - 4 s between second 2
\* and second D - 2; a clip of D <= 4 s (D = 4 s included) is copied whole;
\* the clip written never has zero or negative length.
C14_TrimByFourSeconds ==
    app.fn = "trim"
    => /\ app.duration > Seconds(4)
          => /\ app.cmd.tool = "ffmpeg"
             /\ app.clip.to - app.clip.from = app.duration - Seconds(4)
             /\ app.clip.from = Seconds(2)
             /\ app.clip.to = app.duration - Seconds(2)
       /\ app.duration <= Seconds(4)
          => /\ app.cmd.tool = "copy"
             /\ app.clip = [from |-> 0, to |-> app.duration]
       /\ app.clip.to - app.clip.from > 0

\* A clip of exactly 4 s was copied whole.
C14_Witness ==
    /\ app.fn = "trim"
    /\ app.duration = Seconds(4)
    /\ app.cmd.tool = "copy"
    /\ app.clip = [from |-> 0, to |-> Seconds(4)]

(***************************************************************************)
(* add_text_overlay, lines 547-579: the overlay text and its font size     *)
(***************************************************************************)
\* Where the overlay text comes from, and what was probed of the video.
TextSources == {"text_overlay.txt", "productInfo.name"}
Dimensions == {"720x1280", "1920x1080"}

\* lines 550-557: the content of text_overlay.txt is stripped of the white
\* space around it, the product name is taken as it is.  A text is given by
\* the number of characters of its body and of the white space that follows.
OverlayTextLength(source, body, pad) ==
    IF source = "text_overlay.txt" THEN body ELSE body + pad

\* Mutant of FontSize: the first test is text_length >= 70.
FontSize_From70(text_length) ==
    IF text_length >= 70 THEN 28
    ELSE IF text_length > 50 THEN 32
    ELSE 38

\* lines 572-579
FontSize(text_length) ==
    IF text_length > 70 THEN 28
    ELSE IF text_length > 50 THEN 32
    ELSE 38

FontInit ==
    /\ Parked
    /\ app \in { [fn |-> "overlay_text", source |-> src, body |-> b, pad |-> p,
                  dimensions |-> dim] :
                  src \in TextSources, b \in 0..(MaxTextLen - 1), p \in 0..1,
                  dim \in Dimensions }

\* add_text_overlay up to the drawtext filter it hands to ffmpeg.
AddOverlay ==
    /\ app.fn = "overlay_text"
    /\ LET text_length == OverlayTextLength(app.source, app.body, app.pad)
       IN  app' = [fn |-> "drawtext", source |-> app.source,
                   dimensions |-> app.dimensions,
                   text_length |-> text_length, fontsize |-> FontSize(text_length)]
    /\ UNCHANGED program

FontNext == AddOverlay

FontSpec == FontInit /\ [][FontNext]_vars

\* C15: the font size of the overlay is 28 when the text is longer than 70
\* characters, 32 when it is longer than 50 and at most 70, 38 when it is at
\* most 50, whatever the source of the text and the size of the video; a
\* text of 70 characters gets 32 and one of 50 gets 38.
C15_FontSizeByLength ==
    app.fn = "drawtext"
    => /\ app.text_length > 70 => app.fontsize = 28
       /\ (50 < app.text_length /\ app.text_length <= 70) => app.fontsize = 32
       /\ app.text_length <= 50 => app.fontsize = 38

\* An overlay text of exactly 70 characters was drawn at size 32.
C15_Witness ==
    /\ app.fn = "drawtext"
    /\ app.text_length = 70
    /\ app.fontsize = 32

(***************************************************************************)
(* calculate_target_script_length, and its use by generate_script          *)
(***************************************************************************)
\* int(x) of a quotient num / den, den > 0: the fraction is dropped, toward 0.
int(num, den) == IF num >= 0 THEN num \div den ELSE -((-num) \div den)

\* Mutant of calculate_target_script_length: the product is rounded to the
\* nearest whole number.
calculate_target_script_length_Rounded(video_duration, rate) ==
    int(2 * video_duration * rate + TicksPerSecond, 2 * TicksPerSecond)

\* line 443: int(video_duration * chars_per_second), the duration in ticks.
calculate_target_script_length(video_duration, rate) ==
    int(video_duration * rate, TicksPerSecond)

DigitChars == <<"0", "1", "2", "3", "4", "5", "6", "7", "8", "9">>

\* str(n) of a whole number: its decimal digits, after '-' when n < 0.
RECURSIVE Str(_)
Str(n) ==
    IF n < 0 THEN <<"-">> \o Str(-n)
    ELSE IF n < 10 THEN <<DigitChars[n + 1]>>
    ELSE Append(Str(n \div 10), DigitChars[(n % 10) + 1])

\* What the script reads back from a string of decimal digits.
DigitValue(c) == CHOOSE v \in 0..9 : DigitChars[v + 1] = c

RECURSIVE Parse(_)
Parse(digits) ==
    IF digits = <<>> THEN 0
    ELSE 10 * Parse(SubSeq(digits, 1, Len(digits) - 1)) + DigitValue(digits[Len(digits)])

Rates == 1..MaxRate

ScriptLengthInit ==
    /\ Parked
    /\ app \in { [fn |-> "arguments", video_duration |-> d, rate |-> r] :
                    d \in Durations, r \in Rates }
               \cup { [fn |-> "get_video_duration", video_duration |-> d] :
                         d \in {0} \cup Durations }

\* A call of calculate_target_script_length with both arguments given.
CalculateTargetScriptLength ==
    /\ app.fn = "arguments"
    /\ app' = [fn |-> "calculate_target_script_length",
               video_duration |-> app.video_duration, rate |-> app.rate,
               target_length |->
                   calculate_target_script_length(app.video_duration, app.rate)]
    /\ UNCHANGED program

\* generate_script, lines 454-474: a duration of 0 returns False; otherwise
\* the target length for the default rate goes into the environment of
\* generate-script.sh as a string.
GenerateScriptEnv ==
    /\ app.fn = "get_video_duration"
    /\ app' = IF app.video_duration = 0
              THEN [fn |-> "generate_script", video_duration |-> 0,
                    launched |-> FALSE, TARGET_SCRIPT_LENGTH |-> <<>>]
              ELSE [fn |-> "generate_script", video_duration |-> app.video_duration,
                    launched |-> TRUE,
                    TARGET_SCRIPT_LENGTH |->
                        Str(calculate_target_script_length(app.video_duration,
                                                           chars_per_second))]
    /\ UNCHANGED program

ScriptLengthNext ==
    \/ CalculateTargetScriptLength
    \/ GenerateScriptEnv

ScriptLengthSpec == ScriptLengthInit /\ [][ScriptLengthNext]_vars

\* n is the floor of ticks * rate / TicksPerSecond.
IsFloorOfProduct(n, ticks, rate) ==
    /\ n * TicksPerSecond <= ticks * rate
    /\ ticks * rate < (n + 1) * TicksPerSecond

\* C16: for a duration d > 0 and a rate r > 0 calculate_target_script_length
\* returns the floor of d * r, and the TARGET_SCRIPT_LENGTH generate_script
\* hands to generate-script.sh is that value for the probed duration of the
\* merged clip at 15 characters per second.
C16_TargetLengthIsFloor ==
    /\ (app.fn = "calculate_target_script_length"
           /\ app.video_duration > 0 /\ app.rate > 0)
       => IsFloorOfProduct(app.target_length, app.video_duration, app.rate)
    /\ (app.fn = "generate_script" /\ app.launched)
       => IsFloorOfProduct(Parse(app.TARGET_SCRIPT_LENGTH), app.video_duration, 15)

\* generate-script.sh was run for a merged clip of 40 s with a target of 600.
C16_Witness ==
    /\ app.fn = "generate_script"
    /\ app.video_duration = Seconds(40)
    /\ app.TARGET_SCRIPT_LENGTH = <<"6", "0", "0">>

(***************************************************************************)
(* upload_to_r2, lines 637-642: the key of the uploaded object             *)
(***************************************************************************)
\* The characters product names are made of ("e-acute" is the one accented
\* letter), and those str.isalnum accepts: letters, accented or not, and
\* digits.
Alphabet == <<"a", "Z", "7", "e-acute", "-", "_", " ", "/", ".", "'">>
DefaultName == <<"p", "r", "o", "d", "u", "c", "t">>
Alnum == {"a", "Z", "7", "e-acute"} \cup { DefaultName[k] : k \in 1..Len(DefaultName) }

isalnum(c) == c \in Alnum

\* The name of length n that starts at the character after Alphabet[off] and
\* goes through the alphabet by step (step 0 repeats one character).
Name(n, off, step) ==
    [k \in 1..n |-> Alphabet[((off + k * step) % Len(Alphabet)) + 1]]

Names == { Name(n, off, step) : n \in 0..MaxNameLen,
                                off \in 0..(Len(Alphabet) - 1), step \in 0..1 }

\* video_data['productInfo'], with a name or without one.
ProductInfos == { [name |-> n] : n \in Names } \cup { [brand |-> <<>>] }

\* line 638: video_data.get('productInfo', {}).get('name', 'product')
product_name(info) == IF "name" \in DOMAIN info THEN info.name ELSE DefaultName

\* seq[:n]
Prefix(seq, n) == SubSeq(seq, 1, Min(Len(seq), n))

\* Mutant of product_name_slug: the other characters are dropped.
product_name_slug_Dropping(name) ==
    Prefix(SelectSeq(name, LAMBDA c : isalnum(c) \/ c \in {"-", "_"}), 50)

\* line 640
product_name_slug(name) ==
    Prefix([k \in 1..Len(name) |->
               IF isalnum(name[k]) \/ name[k] \in {"-", "_"} THEN name[k] ELSE "_"],
           50)

\* line 637: datetime.now().strftime('%Y%m%d_%H%M%S'); the reading of the
\* clock is cut to whole seconds, which are written in digits.
Timestamp(now) == Str(now \div TicksPerSecond)

\* line 642
r2_key(timestamp, id, slug) ==
    <<"merged_videos/">> \o timestamp \o <<"_product_">> \o Str(id)
        \o <<"_">> \o slug \o <<".mp4">>

(***************************************************************************)
(* The same product uploaded by several runs of the script.                *)
(***************************************************************************)
\* Names of the products uploaded more than once.
KeyNames == { DefaultName, Name(3, 0, 1), Name(3, 6, 1) }

KeyInit ==
    /\ Parked
    /\ app \in { [fn |-> "upload_to_r2", product_id |-> id, name |-> n,
                  now |-> 0, run |-> 1, uploads |-> {}] :
                  id \in Jobs, n \in KeyNames }

\* Time passes.
Tick ==
    /\ app.fn = "upload_to_r2"
    /\ app.now < MaxClock
    /\ app' = [app EXCEPT !.now = @ + 1]
    /\ UNCHANGED program

\* The running process uploads the video of the product, once.
UploadKey ==
    /\ app.fn = "upload_to_r2"
    /\ \A u \in app.uploads : u.run # app.run
    /\ app' = [app EXCEPT !.uploads = @ \cup
                  { [run |-> app.run,
                     key |-> r2_key(Timestamp(app.now), app.product_id,
                                    product_name_slug(app.name))] }]
    /\ UNCHANGED program

\* The process ends and the script is started again, later on the clock.
NextRun ==
    /\ app.fn = "upload_to_r2"
    /\ app.run < MaxRuns
    /\ app.now < MaxClock
    /\ app' = [app EXCEPT !.run = @ + 1, !.now = @ + 1]
    /\ UNCHANGED program

KeyNext ==
    \/ Tick
    \/ UploadKey
    \/ NextRun

KeySpec == KeyInit /\ [][KeyNext]_vars

\* C17: two uploads of the same product, with the same name, made by
\* different runs have different keys.
C17_KeysDifferAcrossRuns ==
    app.fn = "upload_to_r2"
    => \A u, v \in app.uploads : u.run # v.run => u.key # v.key

(***************************************************************************)
(* The key of one upload, for every product name.                          *)
(***************************************************************************)
\* Product ids of one and of two digits.
ProductIds == 1..(10 * MaxJobs)

SlugInit ==
    /\ Parked
    /\ app \in { [fn |-> "video_data", product_id |-> id, productInfo |-> info] :
                  id \in ProductIds, info \in ProductInfos }

\* upload_to_r2, lines 637-642, with the clock at a reading of the model.
MakeKey ==
    /\ app.fn = "video_data"
    /\ \E now \in {0, MaxClock} :
          LET name == product_name(app.productInfo)
          IN  app' = [fn |-> "r2_key", product_id |-> app.product_id,
                      name |-> name,
                      key |-> r2_key(Timestamp(now), app.product_id,
                                     product_name_slug(name))]
    /\ UNCHANGED program

SlugNext == MakeKey

SlugSpec == SlugInit /\ [][SlugNext]_vars

\* Where the literal "_product_" stands in a key.
ProductMark(key) == CHOOSE k \in 1..Len(key) : key[k] = "_product_"

\* What follows the product id and '_' in a key, up to the extension.
SlugOf(key, id) ==
    SubSeq(key, ProductMark(key) + Len(Str(id)) + 2, Len(key) - 1)

\* The characters a slug is allowed to hold.
SlugChars == Alnum \cup {"-", "_"}

\* C18: the key holds the product id in digits and, after it, a slug: the
\* slug is as long as the product name or 50 characters, whichever is less,
\* holds only alphanumeric characters, '-' and '_', and has at each position
\* the character of the name, or '_' in place of any other character.
C18_KeyHoldsIdAndSlug ==
    app.fn = "r2_key"
    => LET mark == ProductMark(app.key)
           digits == Str(app.product_id)
           slug == SlugOf(app.key, app.product_id)
       IN  /\ \E k \in 1..Len(app.key) : app.key[k] = "_product_"
           /\ SubSeq(app.key, mark + 1, mark + Len(digits)) = digits
           /\ Parse(digits) = app.product_id
           /\ app.key[mark + Len(digits) + 1] = "_"
           /\ app.key[Len(app.key)] = ".mp4"
           /\ Len(slug) <= 50
           /\ Len(slug) = Min(Len(app.name), 50)
           /\ \A k \in 1..Len(slug) :
                 /\ slug[k] \in SlugChars
                 /\ slug[k] = IF app.name[k] \in SlugChars THEN app.name[k] ELSE "_"

\* A name of more than 50 characters, some of them replaced, made a key for
\* a product with a two-digit id.
C18_Witness ==
    /\ app.fn = "r2_key"
    /\ Len(app.name) > 50
    /\ app.product_id >= 10
    /\ Len(SlugOf(app.key, app.product_id)) = 50
    /\ \E k \in 1..50 : app.name[k] = "/" /\ SlugOf(app.key, app.product_id)[k] = "_"
    /\ \E k \in 1..50 : app.name[k] = "e-acute"

(***************************************************************************)
(* Properties of the process, continued                                    *)
(***************************************************************************)
\* The database connection string and the access key, secret and endpoint
\* of the object store.
RequiredValues ==
    {"DATABASE_URL", "R2_ACCESS_KEY_ID", "R2_SECRET_ACCESS_KEY", "R2_ENDPOINT"}

\* C19: when the constructor finds one of the required values missing, the
\* process exits with the configuration error in that step: no product has
\* been fetched, no scratch file and no row is touched, and nothing more
\* happens in that process; the fetch runs only with all four values set.
C19_MissingConfigAbortsFirst ==
    [][ /\ (pc = "main" /\ pc' # "main" /\ ~(RequiredValues \subseteq env'))
           => /\ pc' = "exit1" /\ fatal' = "config"
              /\ products = <<>> /\ products' = <<>>
              /\ db' = db /\ files' = files
        /\ (pc = "exit1" /\ pc' # "exit1")
           => pc' = "main" /\ db' = db /\ files' = files
        /\ pc = "run" => RequiredValues \subseteq env ]_vars

\* The endpoint of the object store was missing: the process has exited with
\* a pending row in the table that it did not read.
C19_Witness ==
    /\ pc = "exit1"
    /\ fatal = "config"
    /\ env = RequiredValues \ {"R2_ENDPOINT"}
    /\ products = <<>>
    /\ \E id \in Jobs : IsPending(db[id])

\* The stages that call a service: the script generator, the voice
\* synthesis, the object store.
ServiceStages == {"ScriptGen", "VoiceGen", "Publishing"}

\* How often a stage is in the log of the current product.
Invocations(name) == Cardinality({ k \in 1..Len(log) : log[k][1] = name })

\* C20: script generation, voice synthesis and upload run at most once for
\* a product of the batch, and a product is taken up once in a sweep; the
\* step that runs one of them leaves the stage, and when it failed
\* process_product returns without a URL, after which the product is counted
\* as failed and its row is not written.
C20_NoRetryOutsideDownload ==
    [][ /\ \A name \in ServiceStages : Invocations(name) <= 1
        /\ (pc = "loop" /\ pc' = "process") => outcome[product_id] = "None"
        /\ (pc \in {"script", "audio", "upload"} /\ pc' # pc)
           => /\ Len(log') = Len(log) + 1
              /\ log'[Len(log')][1] \in ServiceStages
              /\ ~log'[Len(log')][2] => (pc' = "result" /\ r2_url' = NoUrl)
        /\ pc \in {"script", "audio", "upload"} => pc' # pc
        /\ (pc = "result" /\ pc' # "result" /\ Len(log) > 0 /\ ~log[Len(log)][2])
           => /\ r2_url = NoUrl
              /\ db'[product_id].merge_status = db[product_id].merge_status
              /\ db'[product_id].r2_video_url = db[product_id].r2_video_url
              /\ failed_count' = failed_count + 1
              /\ success_count' = success_count ]_vars

\* The upload of the first product failed after its seven other stages; the
\* product was counted as failed and its row is still pending.
C20_Witness ==
    /\ pc = "loop"
    /\ idx = 2
    /\ outcome[products[1].id] = "Failed"
    /\ IsPending(db[products[1].id])
    /\ failed_count = 1
    /\ FinalMergedVideo \in files

\* C21: after every download attempt that failed (no file, an empty file or
\* one ffprobe rejects), the final attempt included, video_i.mp4 does not
\* exist when the downloader goes on to retry or returns its error.
C21_PartialFileDeleted ==
    [][ (pc = "download" /\ tries' = tries + 1) => VideoFile(i) \notin files' ]_vars

(***************************************************************************)
(* generate_script on what ffprobe reports of merged_temp.mp4              *)
(***************************************************************************)
\* What the ffprobe call of get_video_duration ends with: an error (exit
\* status, or output that float() does not read), or a number, which
\* float() reads whatever its sign.
ProbeOutputs ==
    { [ok |-> FALSE] }
    \cup { [ok |-> TRUE, duration |-> d] : d \in (-Seconds(MaxSeconds))..Seconds(MaxSeconds) }

\* get_video_duration, lines 417-430: the number, or 0.0 on any exception.
get_video_duration(out) == IF out.ok THEN out.duration ELSE 0

ProbeInit ==
    /\ Parked
    /\ app \in { [fn |-> "ffprobe", output |-> out] : out \in ProbeOutputs }

\* generate_script, lines 453-474, from the probe to the call of
\* generate-script.sh.
GenerateScriptProbed ==
    /\ app.fn = "ffprobe"
    /\ LET video_duration == get_video_duration(app.output)
       IN  app' = IF video_duration = 0
                  THEN [fn |-> "generate_script", video_duration |-> video_duration,
                        launched |-> FALSE, TARGET_SCRIPT_LENGTH |-> <<>>]
                  ELSE [fn |-> "generate_script", video_duration |-> video_duration,
                        launched |-> TRUE,
                        TARGET_SCRIPT_LENGTH |->
                            Str(calculate_target_script_length(video_duration,
                                                               chars_per_second))]
    /\ UNCHANGED program

ProbeNext == GenerateScriptProbed

ProbeSpec == ProbeInit /\ [][ProbeNext]_vars

\* C22: generate_script does not run generate-script.sh for a merged clip
\* whose duration is 0 or less (the 0.0 of a failed probe included): the
\* script is only run for a duration greater than 0.
C22_RejectsInvalidDuration ==
    app.fn = "generate_script"
    => /\ app.video_duration <= 0 => ~app.launched
       /\ app.launched => app.video_duration > 0

\* C23: when the run of a product is over (its result has been recorded),
\* none of the media files it wrote (downloaded, trimmed, merged, voice,
\* muxed, final) exists any more, whatever the outcome and also for the last
\* product of the sweep.
C23_MediaGoneAfterJob ==
    [][ (pc = "result" /\ pc' = "loop")
        => (written \cap (videos_dir \cup output_dir)) \cap files' = {} ]_vars

\* The products of the batch whose handling ended in one of `ends`.
Ending(ends) == { k \in 1..Len(products) : outcome[products[k].id] \in ends }

\* C24: while the loop runs the three counters add up to the number of
\* products handled so far, and when a sweep over a non-empty batch is over
\* to the size of the batch, each product being counted once: as skipped, as
\* succeeded, or as failed.  A product is counted as succeeded exactly when
\* process_product returned a URL and update_merge_status committed it.
C24_CountsAddUp ==
    [][ /\ pc \in PipelinePcs \cup {"loop"}
           => success_count + failed_count + skipped_count = idx - 1
        /\ (pc = "exit0" /\ products # <<>>)
           => /\ success_count + failed_count + skipped_count = Len(products)
              /\ success_count = Cardinality(Ending({"Succeeded"}))
              /\ skipped_count = Cardinality(Ending({"Skipped"}))
              /\ failed_count = Cardinality(Ending({"Unrecorded", "Stale",
                                                     "GoneUnmarked", "Failed"}))
        /\ (pc = "result" /\ pc' = "loop")
           => ( success_count' = success_count + 1
                <=> /\ r2_url # NoUrl
                    /\ db'[product_id].merge_status
                    /\ db'[product_id].r2_video_url = r2_url )
        /\ (pc # "result" /\ pc' \notin {"main", "loop", "exit0", "exit1"})
           => success_count' = success_count ]_vars

\* A sweep over two products is over: one was skipped, one succeeded.
C24_Witness ==
    /\ pc = "exit0"
    /\ Len(products) = 2
    /\ success_count = 1
    /\ skipped_count = 1
    /\ failed_count = 0

\* C25: for a product of the batch at most one of the two store writes is
\* issued (update_crawl_status after a 404, or update_merge_status after an
\* upload, never both), and a step writes to the row of the current product
\* only; no step makes a row crawl_status = FALSE with merge_status = TRUE
\* that was not so before; and r2_video_url changes only to a URL and
\* together with merge_status = TRUE.
C25_OneWritePerJob ==
    [][ /\ pc = "result" => (stale_write = "none" \/ r2_url = NoUrl)
        /\ (pc = "download_failed" /\ pc' # pc) => (r2_url' = NoUrl /\ pc' = "result")
        /\ (pc = "loop" /\ pc' = "process")
           => (stale_write = "none" /\ outcome[product_id] = "None")
        /\ \A id \in Jobs :
              /\ db'[id] # db[id] => \A other \in Jobs \ {id} : db'[other] = db[other]
              /\ (~db'[id].crawl_status /\ db'[id].merge_status)
                 => (~db[id].crawl_status /\ db[id].merge_status)
              /\ db'[id].r2_video_url # db[id].r2_video_url
                 => (db'[id].r2_video_url # NoUrl /\ db'[id].merge_status) ]_vars

\* A sweep over two products is over: the first was marked stale, the second
\* published.
C25_Witness ==
    /\ pc = "exit0"
    /\ Len(products) = 2
    /\ outcome[products[1].id] = "Stale"
    /\ ~db[products[1].id].crawl_status /\ ~db[products[1].id].merge_status
    /\ db[products[1].id].r2_video_url = NoUrl
    /\ outcome[products[2].id] = "Succeeded"
    /\ db[products[2].id].crawl_status /\ db[products[2].id].merge_status

\* C26: when the download gave up on a 404 and update_crawl_status raised,
\* process_product still returns None: the row is left as it was
\* (crawl_status TRUE, merge_status FALSE), no counter moves and the process
\* does not exit in that step; the result step then counts the product as
\* failed, once, and the loop moves on to the next product.
C26_StaleWriteErrorIsSwallowed ==
    [][ /\ (pc = "download_failed" /\ pc' # pc /\ error_code = "404"
              /\ db'[product_id].crawl_status)
           => /\ db' = db
              /\ pc' = "result" /\ r2_url' = NoUrl /\ fatal' = fatal
              /\ UNCHANGED <<success_count, failed_count, skipped_count, idx>>
        /\ (pc = "result" /\ pc' # pc /\ stale_write = "failed")
           => /\ db' = db
              /\ db[product_id].crawl_status /\ ~db[product_id].merge_status
              /\ failed_count' = failed_count + 1
              /\ UNCHANGED <<success_count, skipped_count, products>>
              /\ pc' = "loop" /\ idx' = idx + 1
        /\ (pc \in PipelinePcs \cup {"loop"} /\ pc' \notin {"loop", "exit0"})
           => failed_count' = failed_count ]_vars

\* The write for the first product's 404 failed; the product was counted as
\* failed once, its row is unchanged, and the second product was published.
C26_Witness ==
    /\ pc = "exit0"
    /\ Len(products) = 2
    /\ outcome[products[1].id] = "GoneUnmarked"
    /\ db[products[1].id].crawl_status /\ ~db[products[1].id].merge_status
    /\ outcome[products[2].id] = "Succeeded"
    /\ failed_count = 1
    /\ success_count = 1

====
